---- MODULE Spec2Model ----
(***************************************************************************)
(* Model of lib/proto.go (the Protocol Buffers schema emitter of           *)
(* gen-o-call) and of the task group at the end of Main.                   *)
(*                                                                         *)
(* Text is modelled as a sequence of tokens, one per Fprintf of the code:  *)
(*   [t |-> "open",  name, parent]   "\nmessage <name> {\n"                *)
(*   [t |-> "field", comment, rule, typ, name, num]   one field line;      *)
(*        comment = TRUE for the scalar form that carries "// AbsType"     *)
(*   [t |-> "close"]                 "}\n"                                 *)
(* The parent of an "open" token is the message whose processing started   *)
(* the call that wrote it ("" for a per-function message), and the fn of a *)
(* sink entry is the index of the function it was written for; neither is  *)
(* part of the text, both are kept only to state properties.               *)
(***************************************************************************)
EXTENDS Naturals, Sequences, FiniteSets, TLC

VARIABLES
  functions,            \* SaveProtobuf: the functions parameter
  pkg,                  \* SaveProtobuf: the pkg parameter
  Gogo,                 \* package variable Gogo
  SkipMissingTableOf,   \* package variable SkipMissingTableOf
  failAt,               \* the write to dst that fails (0: the sink never fails)
  pc,                   \* position inside SaveProtobuf
  idx,                  \* index of the next function of FunLoop
  seen,                 \* the dedup registry
  services,             \* the rpc lines collected so far
  sink,                 \* what dst has received, one entry per successful Write
  err,                  \* the err variable shared with errWriter w
  ret,                  \* the value SaveProtobuf returned
  skipped,              \* indices of the functions logged as "SKIP function"
  fbuf,                 \* buf of the last Function.SaveProtobuf call
  mpc,                  \* Main: position in the task group section
  testOut,              \* Main: testOut != nil
  task,                 \* Main: state of each goroutine of grp
  wg,                   \* errgroup.Group: the WaitGroup counter
  grpErr,               \* errgroup.Group: err (set under errOnce)
  failOrder,            \* tasks in the order their errors reached errOnce
  mret                  \* the value Main returned

evars == <<functions, pkg, Gogo, SkipMissingTableOf, failAt, pc, idx, seen,
           services, sink, err, ret, skipped, fbuf>>
mvars == <<mpc, testOut, task, wg, grpErr, failOrder, mret>>
vars == <<evars, mvars>>

----------------------------------------------------------------------------
(* Bounds *)
MaxFuns == 3        \* longest function list of Spec
MaxFunsIO == 2      \* longest function list of SpecIO
MaxArgs == 3        \* longest argument list of SpecDir

(* Direction bits and error values *)
DIR_IN == 1
DIR_OUT == 2
NoErr == "nil"
ErrMissingTableOf == "ErrMissingTableOf"
ErrIO == "io error"

----------------------------------------------------------------------------
(* The type model: Argument and Function.  TableOf and Returns are         *)
(* pointers: <<>> is nil, <<a>> points to a.  Type is the message or wire  *)
(* type name the argument derives (protoType of the trimmed goType).       *)
Arg(name, dir, flavor, typ, tableOf, recordOf) ==
  [Name |-> name, Direction |-> dir, Flavor |-> flavor, Type |-> typ,
   TableOf |-> tableOf, RecordOf |-> recordOf]

Simple(name, dir) == Arg(name, dir, "SIMPLE", "string", <<>>, <<>>)
Record(name, dir, typ, fields) == Arg(name, dir, "RECORD", typ, <<>>, fields)
Table(name, dir, typ, tableOf) == Arg(name, dir, "TABLE", typ, tableOf, <<>>)

Function(name, args, returns) == [name |-> name, Args |-> args, Returns |-> returns]

CamelCase(s) == s

RECURSIVE BitAnd(_, _)
BitAnd(a, b) ==
  IF a = 0 \/ b = 0 THEN 0
  ELSE (IF a % 2 = 1 /\ b % 2 = 1 THEN 1 ELSE 0) + 2 * BitAnd(a \div 2, b \div 2)

----------------------------------------------------------------------------
(* protoWriteMessageTyp.  The result is [err, text, seen]: the error       *)
(* returned, the text written to dst and the registry after the call       *)
(* (seen is a map shared by reference, so its additions survive an error). *)

\* lines 132-136: the scan for a TABLE argument without TableOf
MissingTableOf(args) ==
  \E i \in 1..Len(args) : args[i].Flavor = "TABLE" /\ args[i].TableOf = <<>>

\* lines 178-191: the arguments of the nested message
subArgsOf(arg) ==
  IF arg.TableOf # <<>>
  THEN IF arg.TableOf[1].RecordOf = <<>> THEN <<arg.TableOf[1]>>
       ELSE arg.TableOf[1].RecordOf
  ELSE arg.RecordOf

\* lines 149-154: the rule of a field line (the "[]" prefix of goType, lines
\* 158-161, is folded into Type: goType is not part of this file)
ruleOf(arg) == IF arg.Flavor = "TABLE" THEN "repeated " ELSE ""

\* line 171: the argument is written as a scalar field
isScalar(arg) ==
  \/ arg.Flavor = "SIMPLE"
  \/ arg.Flavor = "TABLE" /\ arg.TableOf[1].Flavor = "SIMPLE"

OpenTok(msgName, parent) == [t |-> "open", name |-> msgName, parent |-> parent]
CloseTok == [t |-> "close"]
FieldTok(arg, i, scalar) ==
  [t |-> "field", comment |-> scalar, rule |-> ruleOf(arg),
   typ |-> CamelCase(arg.Type), name |-> arg.Name, num |-> i]

RECURSIVE protoWriteMessageTyp(_, _, _, _)
RECURSIVE argLoop(_, _, _, _, _, _)

\* lines 144-199: the loop over args from index i on; w is the text written
\* to dst so far and buf the side buffer of nested messages
argLoop(msgName, args, i, seenIn, w, buf) ==
  IF i > Len(args) THEN [err |-> NoErr, w |-> w, buf |-> buf, seen |-> seenIn]
  ELSE
    LET arg == args[i] IN
    IF isScalar(arg)
    THEN argLoop(msgName, args, i + 1, seenIn, Append(w, FieldTok(arg, i, TRUE)), buf)
    ELSE
      LET typ == CamelCase(arg.Type) IN
      IF typ \in seenIn
      THEN argLoop(msgName, args, i + 1, seenIn, Append(w, FieldTok(arg, i, FALSE)), buf)
      ELSE
        LET sub == protoWriteMessageTyp(typ, msgName, seenIn, subArgsOf(arg)) IN
        IF sub.err # NoErr
        THEN [err |-> sub.err, w |-> w, buf |-> buf \o sub.text, seen |-> sub.seen]
        ELSE argLoop(msgName, args, i + 1, sub.seen \cup {typ},
                     Append(w, FieldTok(arg, i, FALSE)), buf \o sub.text)

\* a variant that writes the nested messages inside the parent's braces
protoWriteMessageTypInline(msgName, parent, seenIn, args) ==
  IF MissingTableOf(args)
  THEN [err |-> ErrMissingTableOf, text |-> <<>>, seen |-> seenIn]
  ELSE
    LET r == argLoop(msgName, args, 1, seenIn, <<OpenTok(msgName, parent)>>, <<>>) IN
    IF r.err # NoErr
    THEN [err |-> r.err, text |-> r.w, seen |-> r.seen]
    ELSE [err |-> NoErr, text |-> Append(r.w \o r.buf, CloseTok), seen |-> r.seen]

\* lines 131-143 and 200-203: the scan, the header, the loop, the closing
\* brace, then the side buffer
protoWriteMessageTyp(msgName, parent, seenIn, args) ==
  IF MissingTableOf(args)
  THEN [err |-> ErrMissingTableOf, text |-> <<>>, seen |-> seenIn]
  ELSE
    LET r == argLoop(msgName, args, 1, seenIn, <<OpenTok(msgName, parent)>>, <<>>) IN
    IF r.err # NoErr
    THEN [err |-> r.err, text |-> r.w, seen |-> r.seen]
    ELSE [err |-> NoErr, text |-> Append(r.w, CloseTok) \o r.buf, seen |-> r.seen]

----------------------------------------------------------------------------
(* Function.saveProtobufDir and Function.SaveProtobuf *)

\* lines 113-118: the arguments of one direction, in call-site order
RECURSIVE selectArgs(_, _)
selectArgs(args, dirmap) ==
  IF args = <<>> THEN <<>>
  ELSE (IF BitAnd(Head(args).Direction, dirmap) > 0 THEN <<Head(args)>> ELSE <<>>)
       \o selectArgs(Tail(args), dirmap)

\* a variant that appends Returns in both directions
dirArgsReturnsAlways(f, out) ==
  selectArgs(f.Args, IF out THEN DIR_OUT ELSE DIR_IN)
  \o (IF f.Returns # <<>> THEN f.Returns ELSE <<>>)

\* lines 109-122: the selected arguments, then Returns for the output
dirArgs(f, out) ==
  selectArgs(f.Args, IF out THEN DIR_OUT ELSE DIR_IN)
  \o (IF out /\ f.Returns # <<>> THEN f.Returns ELSE <<>>)

\* line 125: the name of the message of one direction
MsgName(name, out) == CamelCase(name \o "__" \o (IF out THEN "output" ELSE "input"))

saveProtobufDir(f, seenIn, out) ==
  protoWriteMessageTyp(MsgName(f.name, out), "", seenIn, dirArgs(f, out))

\* a variant without the buffer: the input message reaches dst before the
\* output direction is tried
FunctionSaveProtobufUnbuffered(f, seenIn) ==
  LET in == saveProtobufDir(f, seenIn, FALSE) IN
  IF in.err # NoErr
  THEN [err |-> in.err, buf |-> in.text, seen |-> in.seen, writes |-> <<>>]
  ELSE LET out == saveProtobufDir(f, in.seen, TRUE) IN
       IF out.err # NoErr
       THEN [err |-> out.err, buf |-> in.text \o out.text, seen |-> out.seen,
             writes |-> <<in.text>>]
       ELSE [err |-> NoErr, buf |-> in.text \o out.text, seen |-> out.seen,
             writes |-> <<in.text, out.text>>]

\* lines 97-107: both directions go into buf; writes is what the call hands
\* to dst.Write: buf.Bytes() once both directions succeeded, nothing otherwise
FunctionSaveProtobuf(f, seenIn) ==
  LET in == saveProtobufDir(f, seenIn, FALSE) IN
  IF in.err # NoErr
  THEN [err |-> in.err, buf |-> in.text, seen |-> in.seen, writes |-> <<>>]
  ELSE LET out == saveProtobufDir(f, in.seen, TRUE) IN
       IF out.err # NoErr
       THEN [err |-> out.err, buf |-> in.text \o out.text, seen |-> out.seen,
             writes |-> <<>>]
       ELSE [err |-> NoErr, buf |-> in.text \o out.text, seen |-> out.seen,
             writes |-> <<in.text \o out.text>>]

----------------------------------------------------------------------------
(* errWriter and the sink.  A write reaches dst only while err is nil; the *)
(* failAt-th write that reaches dst fails.                                 *)
Write(s, chunk) ==
  IF s.err # NoErr THEN s
  ELSE IF Len(s.sink) + 1 = failAt THEN [s EXCEPT !.err = ErrIO]
  ELSE [s EXCEPT !.sink = Append(@, chunk)]

RECURSIVE WriteAll(_, _)
WriteAll(s, chunks) ==
  IF chunks = <<>> THEN s ELSE WriteAll(Write(s, Head(chunks)), Tail(chunks))

----------------------------------------------------------------------------
(* SaveProtobuf *)

\* line 78: one rpc line of the service block
RpcLine(f, i) ==
  [kind |-> "rpc", fn |-> i, name |-> CamelCase(f.name),
   in |-> MsgName(f.name, FALSE), out |-> MsgName(f.name, TRUE)]

\* lines 44-53: the syntax line, the package clause and the gogo import
HeaderChunks ==
  <<[kind |-> "syntax"]>>
  \o (IF pkg # "" THEN <<[kind |-> "package", name |-> pkg]>> ELSE <<>>)
  \o (IF Gogo THEN <<[kind |-> "import"]>> ELSE <<>>)

\* a variant whose loop over services starts one entry late
ServiceChunksOffByOne ==
  <<[kind |-> "service", name |-> CamelCase(pkg)]>>
  \o (IF services = <<>> THEN <<>> ELSE Tail(services))
  \o <<[kind |-> "end"]>>

\* lines 88-92: the service block
ServiceChunks ==
  <<[kind |-> "service", name |-> CamelCase(pkg)]>> \o services \o <<[kind |-> "end"]>>

\* a variant that skips whatever the policy says
skipFunctionAlways(e) == e = ErrMissingTableOf

\* line 62: the error is a missing TableOf and the policy says skip
skipFunction(e) == SkipMissingTableOf /\ e = ErrMissingTableOf

FunChunk(i, text) == [kind |-> "fun", fn |-> i, text |-> text]

\* lines 40-56
WriteHeader ==
  /\ pc = "start"
  /\ LET s == WriteAll([sink |-> sink, err |-> err], HeaderChunks) IN
       /\ sink' = s.sink
       /\ err' = s.err
  /\ pc' = "loop"
  /\ UNCHANGED <<functions, pkg, Gogo, SkipMissingTableOf, failAt, idx, seen,
                 services, ret, skipped, fbuf>>
  /\ UNCHANGED mvars

\* lines 58-86: one iteration of FunLoop
FunLoop ==
  /\ pc = "loop"
  /\ idx <= Len(functions)
  /\ LET fun == functions[idx]
         r == FunctionSaveProtobuf(fun, seen)
         s == WriteAll([sink |-> sink, err |-> err],
                       [k \in 1..Len(r.writes) |-> FunChunk(idx, r.writes[k])])
     IN
       /\ seen' = r.seen
       /\ fbuf' = [err |-> r.err, text |-> r.buf]
       /\ sink' = s.sink
       /\ err' = s.err
       /\ IF r.err # NoErr
          THEN IF skipFunction(r.err)
               THEN /\ skipped' = skipped \cup {idx}
                    /\ idx' = idx + 1
                    /\ UNCHANGED <<pc, ret, services>>
               ELSE /\ pc' = "done"
                    /\ ret' = r.err
                    /\ UNCHANGED <<idx, skipped, services>>
          ELSE IF s.err # NoErr
               THEN /\ pc' = "done"
                    /\ ret' = s.err
                    /\ UNCHANGED <<idx, skipped, services>>
               ELSE /\ services' = Append(services, RpcLine(fun, idx))
                    /\ idx' = idx + 1
                    /\ UNCHANGED <<pc, ret, skipped>>
  /\ UNCHANGED <<functions, pkg, Gogo, SkipMissingTableOf, failAt>>
  /\ UNCHANGED mvars

\* lines 88-94: the service block, then return nil
WriteService ==
  /\ pc = "loop"
  /\ idx > Len(functions)
  /\ LET s == WriteAll([sink |-> sink, err |-> err], ServiceChunks) IN
       /\ sink' = s.sink
       /\ err' = s.err
  /\ pc' = "done"
  /\ ret' = NoErr
  /\ UNCHANGED <<functions, pkg, Gogo, SkipMissingTableOf, failAt, idx, seen,
                 services, skipped, fbuf>>
  /\ UNCHANGED mvars

----------------------------------------------------------------------------
(* The inputs *)

SeqsUpTo(S, n) == UNION {[1..k -> S] : k \in 0..n}

\* a record T with a nested record U
recT(dir) ==
  Record("p_rec", dir, "T", <<Simple("x", 0), Record("u", 0, "U", <<Simple("y", 0)>>)>>)
\* a different structure deriving the same name T, holding a table without TableOf
recTbad(dir) == Record("p_rec2", dir, "T", <<Table("rows", 0, "string", <<>>)>>)
\* a record W whose first field builds V and whose second holds a broken table
recW(dir) ==
  Record("p_w", dir, "W",
         <<Record("v", 0, "V", <<Simple("z", 0)>>),
           Record("q", 0, "Q", <<Table("rows", 0, "string", <<>>)>>)>>)
\* a record S holding a record that derives the same name S
recSelf(dir) == Record("p_self", dir, "S", <<Record("inner", 0, "S", <<Simple("k", 0)>>)>>)
\* a table of records V, a table of scalars, a table without TableOf
tabV(dir) == Table("p_rows", dir, "V", <<Record("", 0, "V", <<Simple("z", 0)>>)>>)
tabS(dir) == Table("p_list", dir, "string", <<Simple("", 0)>>)
tabBad(dir) == Table("p_tab", dir, "string", <<>>)
\* a record deriving the name of the input message of function g
recTop(dir) == Record("p_top", dir, "g__input", <<Simple("t", 0)>>)

FunPool ==
  { Function("f", <<Simple("p_id", DIR_IN), Simple("p_res", DIR_OUT)>>, <<>>),
    Function("f", <<Simple("p_id", DIR_IN), recT(3)>>, <<Simple("ret", 0)>>),
    Function("g", <<recT(DIR_IN), tabBad(DIR_OUT)>>, <<>>),
    Function("g", <<tabBad(DIR_IN)>>, <<>>),
    Function("g", <<recTbad(DIR_OUT), tabS(DIR_IN)>>, <<>>),
    Function("h", <<recW(DIR_OUT), tabV(DIR_IN)>>, <<>>),
    Function("h", <<tabV(3), recT(DIR_IN)>>, <<recT(0)>>),
    Function("k", <<recSelf(3)>>, <<>>),
    Function("k", <<recTop(DIR_OUT)>>, <<>>) }

\* Main sorts the functions by name before it calls SaveProtobuf (line 482)
NameRank(n) == CHOOSE r \in 1..4 : <<"f", "g", "h", "k">>[r] = n
SortedLists(n) ==
  {l \in SeqsUpTo(FunPool, n) :
     \A i, j \in DOMAIN l : i < j => NameRank(l[i].name) <= NameRank(l[j].name)}

Dirs == 0..3
DirArgPool ==
  {Simple("a", d) : d \in Dirs} \cup {Record("r", d, "T", <<Simple("x", 0)>>) : d \in Dirs}
DirFunctions ==
  { Function("f", args, r) : args \in SeqsUpTo(DirArgPool, MaxArgs),
                             r \in {<<>>, <<Simple("ret", 0)>>} }

\* the writes SaveProtobuf can make to dst for a list of n functions
MaxWrites(n) == 5 + 2 * n

----------------------------------------------------------------------------
(* Main: the errgroup.Group section.  Task 1 is SaveFunctions, task 2      *)
(* SaveFunctionTests (started only when testOut != nil), task 3 writes the *)
(* schema and runs protoc.                                                 *)
Tasks == {1, 2, 3}
Running == {"run", "create", "save", "protoc"}

MainIdle ==
  /\ mpc = "go1" /\ testOut = FALSE /\ task = [t \in Tasks |-> "idle"]
  /\ wg = 0 /\ grpErr = NoErr /\ failOrder = <<>> /\ mret = "none"

EmitIdle ==
  /\ functions = <<>> /\ pkg = "" /\ Gogo = FALSE /\ SkipMissingTableOf = TRUE
  /\ failAt = 0 /\ pc = "start" /\ idx = 1 /\ seen = {} /\ services = <<>>
  /\ sink = <<>> /\ err = NoErr /\ ret = "none" /\ skipped = {}
  /\ fbuf = [err |-> NoErr, text |-> <<>>]

\* grp.Go(f): wg.Add(1) and start the goroutine
Go(t, first) ==
  /\ wg' = wg + 1
  /\ task' = [task EXCEPT ![t] = first]

\* line 485
MainGo1 ==
  /\ mpc = "go1"
  /\ Go(1, "run")
  /\ mpc' = "go2"
  /\ UNCHANGED <<testOut, grpErr, failOrder, mret>>
  /\ UNCHANGED evars

\* lines 498-512
MainGo2 ==
  /\ mpc = "go2"
  /\ IF testOut THEN Go(2, "run") ELSE UNCHANGED <<wg, task>>
  /\ mpc' = "go3"
  /\ UNCHANGED <<testOut, grpErr, failOrder, mret>>
  /\ UNCHANGED evars

\* line 514
MainGo3 ==
  /\ mpc = "go3"
  /\ Go(3, "create")
  /\ mpc' = "wait"
  /\ UNCHANGED <<testOut, grpErr, failOrder, mret>>
  /\ UNCHANGED evars

\* a variant in which every error overwrites the group's error
FinishLastError(t, e) ==
  /\ task' = [task EXCEPT ![t] = IF e = NoErr THEN "ok" ELSE "failed"]
  /\ grpErr' = IF e # NoErr THEN e ELSE grpErr
  /\ failOrder' = IF e # NoErr THEN Append(failOrder, [t |-> t, e |-> e]) ELSE failOrder
  /\ wg' = wg - 1

\* errgroup: the goroutine's f returned e; errOnce keeps the first error,
\* then wg.Done()
Finish(t, e) ==
  /\ task' = [task EXCEPT ![t] = IF e = NoErr THEN "ok" ELSE "failed"]
  /\ grpErr' = IF e # NoErr /\ grpErr = NoErr THEN e ELSE grpErr
  /\ failOrder' = IF e # NoErr THEN Append(failOrder, [t |-> t, e |-> e]) ELSE failOrder
  /\ wg' = wg - 1

\* the error each task wraps
TaskErr(t, stage) ==
  IF t = 1 THEN "save functions"
  ELSE IF t = 2 THEN "save function tests"
  ELSE stage

\* lines 485-497 and 499-511: SaveFunctions / SaveFunctionTests returns
TaskRun(t) ==
  /\ t \in {1, 2}
  /\ task[t] = "run"
  /\ \E ok \in BOOLEAN : Finish(t, IF ok THEN NoErr ELSE TaskErr(t, ""))
  /\ UNCHANGED <<mpc, testOut, mret>>
  /\ UNCHANGED evars

\* lines 522-525: os.Create of the schema file
TaskCreate ==
  /\ task[3] = "create"
  /\ \E ok \in BOOLEAN :
       IF ok THEN /\ task' = [task EXCEPT ![3] = "save"]
                  /\ UNCHANGED <<wg, grpErr, failOrder>>
       ELSE Finish(3, TaskErr(3, "create proto"))
  /\ UNCHANGED <<mpc, testOut, mret>>
  /\ UNCHANGED evars

\* lines 526-532: SaveProtobuf and Close
TaskSave ==
  /\ task[3] = "save"
  /\ \E ok \in BOOLEAN :
       IF ok THEN /\ task' = [task EXCEPT ![3] = "protoc"]
                  /\ UNCHANGED <<wg, grpErr, failOrder>>
       ELSE Finish(3, TaskErr(3, "SaveProtobuf"))
  /\ UNCHANGED <<mpc, testOut, mret>>
  /\ UNCHANGED evars

\* lines 534-546: the protoc subprocess
TaskProtoc ==
  /\ task[3] = "protoc"
  /\ \E ok \in BOOLEAN : Finish(3, IF ok THEN NoErr ELSE TaskErr(3, "protoc"))
  /\ UNCHANGED <<mpc, testOut, mret>>
  /\ UNCHANGED evars

\* lines 549-552: grp.Wait() returns once the counter is zero
MainWait ==
  /\ mpc = "wait"
  /\ wg = 0
  /\ mret' = grpErr
  /\ mpc' = "returned"
  /\ UNCHANGED <<testOut, task, wg, grpErr, failOrder>>
  /\ UNCHANGED evars

----------------------------------------------------------------------------
(* Specifications *)

EmitInit(lists, fails) ==
  /\ functions \in lists
  /\ pkg \in {"", "pkg"}
  /\ Gogo \in BOOLEAN
  /\ SkipMissingTableOf \in BOOLEAN
  /\ failAt \in fails
  /\ pc = "start" /\ idx = 1 /\ seen = {} /\ services = <<>>
  /\ sink = <<>> /\ err = NoErr /\ ret = "none" /\ skipped = {}
  /\ fbuf = [err |-> NoErr, text |-> <<>>]

Init == EmitInit(SortedLists(MaxFuns), {0}) /\ MainIdle
InitIO == EmitInit(SortedLists(MaxFunsIO), 1..MaxWrites(MaxFunsIO)) /\ MainIdle
InitDir == EmitInit({<<f>> : f \in DirFunctions}, {0}) /\ MainIdle
InitMain ==
  /\ EmitIdle
  /\ mpc = "go1" /\ testOut \in BOOLEAN /\ task = [t \in Tasks |-> "idle"]
  /\ wg = 0 /\ grpErr = NoErr /\ failOrder = <<>> /\ mret = "none"

Next == WriteHeader \/ FunLoop \/ WriteService
NextMain ==
  \/ MainGo1 \/ MainGo2 \/ MainGo3
  \/ TaskRun(1) \/ TaskRun(2) \/ TaskCreate \/ TaskSave \/ TaskProtoc
  \/ MainWait

Spec == Init /\ [][Next]_vars
SpecIO == InitIO /\ [][Next]_vars
SpecDir == InitDir /\ [][Next]_vars
SpecMain == InitMain /\ [][NextMain]_vars

----------------------------------------------------------------------------
(* Reading the output *)

RECURSIVE Flatten(_)
Flatten(ss) == IF ss = <<>> THEN <<>> ELSE Head(ss) \o Flatten(Tail(ss))

IsKind(k) == [e \in DOMAIN sink |-> sink[e].kind = k]
KindIdx(k) == {e \in DOMAIN sink : sink[e].kind = k}
\* the entries of one kind, in sink order
RECURSIVE OfKindFrom(_, _)
OfKindFrom(k, e) ==
  IF e > Len(sink) THEN <<>>
  ELSE (IF sink[e].kind = k THEN <<sink[e]>> ELSE <<>>) \o OfKindFrom(k, e + 1)
OfKind(k) == OfKindFrom(k, 1)

\* all message text the sink received
SinkText == Flatten([e \in 1..Len(OfKind("fun")) |-> OfKind("fun")[e].text])

OpenIdx(text) == {i \in DOMAIN text : text[i].t = "open"}
CloseIdx(text) == {i \in DOMAIN text : text[i].t = "close"}
\* the composite field lines: those without the "// AbsType" comment
RefIdx(text) == {i \in DOMAIN text : text[i].t = "field" /\ ~text[i].comment}
Defs(text, name) == {i \in OpenIdx(text) : text[i].name = name}

Done == pc = "done"
Survivors == (1..Len(functions)) \ skipped

\* a TABLE argument without TableOf
Broken(a) == a.Flavor = "TABLE" /\ a.TableOf = <<>>
HasIn(a) == a.Direction % 2 = 1
HasOut(a) == (a.Direction \div 2) % 2 = 1
\* the function has a broken table among the arguments of a direction
BrokenIn(f) == \E i \in DOMAIN f.Args : HasIn(f.Args[i]) /\ Broken(f.Args[i])
BrokenOut(f) ==
  \/ \E i \in DOMAIN f.Args : HasOut(f.Args[i]) /\ Broken(f.Args[i])
  \/ f.Returns # <<>> /\ Broken(f.Returns[1])
\* the argument tree holds a broken table somewhere
RECURSIVE BrokenDeep(_)
BrokenDeep(a) ==
  \/ Broken(a)
  \/ \E i \in DOMAIN a.RecordOf : BrokenDeep(a.RecordOf[i])
  \/ a.TableOf # <<>> /\ BrokenDeep(a.TableOf[1])
BrokenAnywhere(f) ==
  \/ \E i \in DOMAIN f.Args : BrokenDeep(f.Args[i])
  \/ f.Returns # <<>> /\ BrokenDeep(f.Returns[1])

----------------------------------------------------------------------------
(* C1: with the skip policy on, a function whose emission hits a TABLE      *)
(* argument without TableOf leaves nothing in the sink (no message text of  *)
(* either direction, no rpc line), SaveProtobuf returns nil, and every      *)
(* other function is processed and committed.                               *)
C1_SkippedFunctionAbsent ==
  SkipMissingTableOf =>
    /\ ret # ErrMissingTableOf
    /\ \A i \in skipped : \A e \in DOMAIN sink :
         sink[e].kind \in {"fun", "rpc"} => sink[e].fn # i
    /\ \A i \in 1..(idx - 1) :
         (BrokenIn(functions[i]) \/ BrokenOut(functions[i])) => i \in skipped
    /\ \A i \in skipped : BrokenAnywhere(functions[i])
    /\ Done =>
         /\ ret = NoErr
         /\ idx = Len(functions) + 1
         /\ \A i \in Survivors : \E e \in DOMAIN sink :
              sink[e].kind = "fun" /\ sink[e].fn = i

\* a function was skipped after its input message had been built, a nested
\* broken table skipped another, and a later function was still committed
C1_Witness ==
  /\ Done /\ SkipMissingTableOf
  /\ \E i \in skipped : ~BrokenIn(functions[i]) /\ BrokenOut(functions[i])
                        /\ \E a \in DOMAIN functions[i].Args : HasIn(functions[i].Args[a])
  /\ \E i \in skipped : ~BrokenIn(functions[i]) /\ ~BrokenOut(functions[i])
  /\ \E i \in skipped : \E j \in Survivors : j > i

C4_ServiceBlock ==
  (Done /\ ret = NoErr) =>
    LET rpcs == OfKind("rpc") IN
    /\ Cardinality(KindIdx("service")) = 1
    /\ Cardinality(KindIdx("end")) = 1
    /\ sink[Len(sink)].kind = "end"
    /\ Len(rpcs) = Cardinality(Survivors)
    /\ {rpcs[k].fn : k \in DOMAIN rpcs} = Survivors
    /\ \A k \in DOMAIN rpcs : rpcs[k].name = functions[rpcs[k].fn].name
    /\ \A k, l \in DOMAIN rpcs : k < l => rpcs[k].fn < rpcs[l].fn
    /\ \A e \in KindIdx("fun") : \A v \in KindIdx("service") : e < v
    /\ \A e \in KindIdx("rpc") : \A v \in KindIdx("service") : v < e
    /\ {sink[e].fn : e \in KindIdx("fun")} = Survivors

\* a run with a skipped function between two surviving ones
C4_Witness ==
  /\ Done /\ ret = NoErr
  /\ \E i, j \in Survivors : \E k \in skipped : i < k /\ k < j

(* C3: a message name derived by composite arguments of two functions, or  *)
(* of the two directions of one function, has its body exactly once in the  *)
(* output.                                                                  *)
Composite(a) ==
  \/ a.Flavor = "RECORD"
  \/ a.Flavor = "TABLE" /\ a.TableOf # <<>> /\ a.TableOf[1].Flavor # "SIMPLE"
\* the names the composite arguments of one direction of functions[i] derive
CompositeNames(i, out) ==
  LET f == functions[i] IN
    {f.Args[a].Type : a \in {b \in DOMAIN f.Args :
        Composite(f.Args[b]) /\ (IF out THEN HasOut(f.Args[b]) ELSE HasIn(f.Args[b]))}}
    \cup (IF out /\ f.Returns # <<>> /\ Composite(f.Returns[1])
          THEN {f.Returns[1].Type} ELSE {})
\* the names derived in two places of the surviving functions
SharedNames ==
  {n \in UNION {CompositeNames(i, o) : i \in Survivors, o \in BOOLEAN} :
     \E i, j \in Survivors : \E o, q \in BOOLEAN :
        /\ <<i, o>> # <<j, q>>
        /\ n \in CompositeNames(i, o) /\ n \in CompositeNames(j, q)}
C3_BodyExactlyOnce ==
  (Done /\ ret = NoErr) =>
    \A n \in SharedNames : Cardinality(Defs(SinkText, n)) = 1

(* C5: when a write to dst fails, SaveProtobuf returns a non-nil error.     *)
C5_WriteFailureReturned ==
  (Done /\ err # NoErr) => ret # NoErr

(* C9: after a run that returns nil, every message name used as the type of *)
(* a composite field line of the output is defined in the output.           *)
C9_ReferencesDefined ==
  (Done /\ ret = NoErr) =>
    \A i \in RefIdx(SinkText) : Defs(SinkText, SinkText[i].typ) # {}

(* C10: no message name is defined twice in the output of one run.          *)
C10_NoNameDefinedTwice ==
  (Done /\ ret = NoErr) =>
    \A i, j \in OpenIdx(SinkText) : i # j => SinkText[i].name # SinkText[j].name

(* C7: the input message holds exactly the arguments whose Direction has    *)
(* the IN bit and the output message those with the OUT bit, in call-site   *)
(* order; Returns is the last field of the output message and is never in   *)
(* the input message.                                                       *)
\* the end of the block opened at i, and the tokens between
BlockEnd(text, i) ==
  CHOOSE k \in CloseIdx(text) : k > i /\ \A m \in CloseIdx(text) : m > i => k <= m
FieldsOf(text, i) == [k \in 1..(BlockEnd(text, i) - i - 1) |-> text[i + k]]
\* the fields are the given arguments, in order, numbered from 1
Matches(fields, args) ==
  /\ Len(fields) = Len(args)
  /\ \A k \in DOMAIN fields :
       /\ fields[k].t = "field"
       /\ fields[k].name = args[k].Name
       /\ fields[k].typ = args[k].Type
       /\ fields[k].num = k
C7_DirectionSplit ==
  \A e \in KindIdx("fun") :
    LET f == functions[sink[e].fn]
        text == sink[e].text
        tops == {i \in OpenIdx(text) : text[i].parent = ""}
    IN \E i, j \in tops :
         /\ i < j /\ tops = {i, j}
         /\ text[i].name = f.name \o "__input"
         /\ text[j].name = f.name \o "__output"
         /\ Matches(FieldsOf(text, i), SelectSeq(f.Args, HasIn))
         /\ Matches(FieldsOf(text, j), SelectSeq(f.Args, HasOut) \o f.Returns)

\* a committed function with an IN, an OUT and an IN/OUT argument and a
\* return value
C7_Witness ==
  /\ Done /\ ret = NoErr /\ Len(functions) = 1 /\ KindIdx("fun") # {}
  /\ functions[1].Returns # <<>>
  /\ \E a, b, c \in DOMAIN functions[1].Args :
       /\ functions[1].Args[a].Direction = 1
       /\ functions[1].Args[b].Direction = 2
       /\ functions[1].Args[c].Direction = 3

(* C8: message blocks never nest or interleave; in the text of a call that  *)
(* succeeded every block is closed, and the definition of a nested message  *)
(* follows the closing brace of the message it was emitted for.             *)
NoNesting(text) ==
  \A i, j \in OpenIdx(text) : i < j => \E k \in CloseIdx(text) : i < k /\ k < j
Balanced(text) ==
  /\ Cardinality(OpenIdx(text)) = Cardinality(CloseIdx(text))
  /\ text # <<>> => text[1].t = "open" /\ text[Len(text)].t = "close"
  /\ \A i, j \in CloseIdx(text) : i < j => \E k \in OpenIdx(text) : i < k /\ k < j
Deferred(text) ==
  \A j \in OpenIdx(text) : text[j].parent # "" =>
    \E i \in OpenIdx(text) :
      /\ text[i].name = text[j].parent
      /\ BlockEnd(text, i) < j
      /\ \E r \in RefIdx(text) :
           i < r /\ r < BlockEnd(text, i) /\ text[r].typ = text[j].name
C8_NestedMessagesDeferred ==
  /\ NoNesting(fbuf.text)
  /\ fbuf.err = NoErr => Balanced(fbuf.text) /\ Deferred(fbuf.text)
  /\ NoNesting(SinkText) /\ Balanced(SinkText) /\ Deferred(SinkText)

\* a committed text with a message nested two levels deep
C8_Witness ==
  /\ fbuf.err = NoErr
  /\ \E i, j \in OpenIdx(SinkText) :
       /\ SinkText[i].parent # ""
       /\ SinkText[j].parent = SinkText[i].name
       /\ i < j

(* C6: Main returns only after every started task has finished; a failed    *)
(* task leaves the others running to their own end; Main returns an error   *)
(* exactly when a task failed, and it is the error of the first that failed.*)
Started == {1, 3} \cup (IF testOut THEN {2} ELSE {})
C6_WaitAllFirstError ==
  /\ wg = Cardinality({t \in Tasks : task[t] \in Running})
  /\ \A t \in Tasks : task[t] = "failed" <=> \E k \in DOMAIN failOrder : failOrder[k].t = t
  /\ mpc = "returned" =>
       /\ \A t \in Started : task[t] \in {"ok", "failed"}
       /\ \A t \in Tasks \ Started : task[t] = "idle"
       /\ mret # NoErr <=> \E t \in Tasks : task[t] = "failed"
       /\ failOrder # <<>> => mret = failOrder[1].e

\* Main returned after two tasks failed and the third finished well
C6_Witness ==
  /\ mpc = "returned" /\ Len(failOrder) = 2
  /\ \E t \in Tasks : task[t] = "ok"
  /\ failOrder[1].e # failOrder[2].e

====
